---- MODULE Spec2Model ----
(***************************************************************************)
(* Model of random_sampling: BoundaryHandler (boundary.py) and             *)
(* RandomPointGenerator (generator.py).                                    *)
(*                                                                         *)
(* Coordinates are points of an integer grid.  A polygon is the sequence   *)
(* of its ring vertices; the empty sequence is shapely's empty Polygon().  *)
(* Optional values (Python None) are sequences: <<>> is None, <<v>> is v.  *)
(* np.random is one process-wide generator: its state is the variable rng. *)
(***************************************************************************)
EXTENDS Integers, Sequences, FiniteSets, TLC

(***************************************************************************)
(* Bounds of the model                                                     *)
(***************************************************************************)
MaxN == 2
MaxMinDistance == 3
MaxSeed == 1
MaxEntropy == 3
MaxConcurrentN == 1
RngMod == 64
MaxHandlers == 3

(***************************************************************************)
(* Program and library constants                                           *)
(***************************************************************************)
AttemptsPerPoint == 1000

None == <<>>
Some(v) == <<v>>

(***************************************************************************)
(* Geometry (shapely.geometry.Polygon as used by boundary.py)              *)
(***************************************************************************)
Square == << <<0, 0>>, <<4, 0>>, <<4, 4>>, <<0, 4>> >>
Triangle == << <<2, 2>>, <<6, 2>>, <<2, 6>> >>
Bowtie == << <<0, 0>>, <<2, 2>>, <<2, 0>>, <<0, 2>> >>
EmptyPolygon == << >>

Cross(a, b, p) == (b[1] - a[1]) * (p[2] - a[2]) - (b[2] - a[2]) * (p[1] - a[1])

Succ(poly, k) == IF k = Len(poly) THEN 1 ELSE k + 1

\* polygon.is_valid: the empty polygon is valid; a ring is valid when it
\* turns the same way at every vertex (convex rings; a self-crossing ring
\* such as Bowtie turns both ways).
is_valid(poly) ==
    \/ Len(poly) = 0
    \/ /\ Len(poly) >= 3
       /\ \/ \A k \in 1..Len(poly) :
                Cross(poly[k], poly[Succ(poly, k)], poly[Succ(poly, Succ(poly, k))]) > 0
          \/ \A k \in 1..Len(poly) :
                Cross(poly[k], poly[Succ(poly, k)], poly[Succ(poly, Succ(poly, k))]) < 0

\* polygon.contains(point): the point lies in the interior; points of the
\* ring itself are not contained.
PolygonContains(poly, p) ==
    /\ Len(poly) >= 3
    /\ \/ \A k \in 1..Len(poly) : Cross(poly[k], poly[Succ(poly, k)], p) > 0
       \/ \A k \in 1..Len(poly) : Cross(poly[k], poly[Succ(poly, k)], p) < 0

Min(S) == CHOOSE m \in S : \A e \in S : m <= e
Max(S) == CHOOSE m \in S : \A e \in S : m >= e

\* geometry.bounds of the union of the polygons: (minx, miny, maxx, maxy)
GeomBounds(polys) ==
    LET X == UNION {{polys[k][v][1] : v \in 1..Len(polys[k])} : k \in 1..Len(polys)}
        Y == UNION {{polys[k][v][2] : v \in 1..Len(polys[k])} : k \in 1..Len(polys)}
    IN  <<Min(X), Min(Y), Max(X), Max(Y)>>

\* bool(geometry): a geometry is truthy when it is not empty
GeomNonEmpty(polys) == \E k \in 1..Len(polys) : Len(polys[k]) > 0

\* point.distance(existing_point) < min_distance, for min_distance > 0,
\* compared on the squares
DistSq(p, q) == (p[1] - q[1]) * (p[1] - q[1]) + (p[2] - q[2]) * (p[2] - q[2])
DistanceLess(p, q, d) == DistSq(p, q) < d * d

(***************************************************************************)
(* BoundaryHandler                                                         *)
(***************************************************************************)
\* BoundaryHandler._validate_polygons: keep the valid polygons, in order
_validate_polygons(polys) == SelectSeq(polys, is_valid)

\* BoundaryHandler.get_bounds: None without polygons or when the combined
\* boundary is empty
get_bounds(polys) ==
    IF Len(polys) = 0 THEN None
    ELSE IF GeomNonEmpty(polys) THEN GeomBounds(polys) ELSE None

\* contains_point with the bounding box in place of the polygons: inside
\* the bounds of the whole set
contains_point_bounds(polys, p) ==
    /\ get_bounds(polys) # None
    /\ get_bounds(polys)[1] < p[1] /\ p[1] < get_bounds(polys)[3]
    /\ get_bounds(polys)[2] < p[2] /\ p[2] < get_bounds(polys)[4]

\* contains_point with polygon.covers in place of polygon.contains: points
\* of the ring count as inside
contains_point_covers(polys, p) ==
    \E k \in 1..Len(polys) :
        /\ Len(polys[k]) >= 3
        /\ \/ \A v \in 1..Len(polys[k]) : Cross(polys[k][v], polys[k][Succ(polys[k], v)], p) >= 0
           \/ \A v \in 1..Len(polys[k]) : Cross(polys[k][v], polys[k][Succ(polys[k], v)], p) <= 0

\* BoundaryHandler.contains_point: inside any of the polygons
contains_point(polys, p) ==
    IF Len(polys) = 0 THEN FALSE
    ELSE \E k \in 1..Len(polys) : PolygonContains(polys[k], p)

\* BoundaryHandler.get_combined_boundary: None without polygons; else the
\* union of the polygons (the one polygon itself when there is one), kept as
\* the sequence of the polygons it is the union of.  The union of valid
\* polygons does not raise.
get_combined_boundary(polys) == IF Len(polys) = 0 THEN None ELSE Some(polys)

RECURSIVE ShoelaceFrom(_, _)
ShoelaceFrom(poly, k) ==
    IF k > Len(poly) THEN 0
    ELSE poly[k][1] * poly[Succ(poly, k)][2] - poly[Succ(poly, k)][1] * poly[k][2]
         + ShoelaceFrom(poly, k + 1)

\* polygon.area
PolygonArea(poly) ==
    LET twice == ShoelaceFrom(poly, 1)
    IN  (IF twice < 0 THEN -twice ELSE twice) \div 2

RECURSIVE AreaFrom(_, _)
AreaFrom(polys, k) ==
    IF k > Len(polys) THEN 0 ELSE PolygonArea(polys[k]) + AreaFrom(polys, k + 1)

\* BoundaryHandler.get_area: 0.0 without polygons, else the sum of the areas
get_area(polys) == IF Len(polys) = 0 THEN 0 ELSE AreaFrom(polys, 1)

(***************************************************************************)
(* Attribute dicts.  A dict has, for each key that occurs, None (the key   *)
(* is absent) or Some(value); a value is a str, kept as the sequence of    *)
(* its character codes, or something that is not a str.                    *)
(***************************************************************************)
Str(cs) == [str |-> TRUE, v |-> cs]
NonStr(cs) == [str |-> FALSE, v |-> cs]

EmptyDict == [name |-> None, id |-> None]

\* "Ab", "aB", "b", "B", "" and the int 7
NameAb == [name |-> Some(Str(<<65, 98>>)), id |-> None]
NameXbIdB == [name |-> Some(Str(<<120, 98>>)), id |-> Some(Str(<<66>>))]
NameSeven == [name |-> Some(NonStr(<<7>>)), id |-> Some(Str(<< >>))]
NameaBIdb == [name |-> Some(Str(<<97, 66>>)), id |-> Some(Str(<<98>>))]

\* attributes.get(field, default)
Get(attributes, field, default) ==
    IF attributes[field] = None THEN default ELSE attributes[field][1]

\* str.lower() on the character codes
lower(cs) == [k \in 1..Len(cs) |-> IF cs[k] \in 65..90 THEN cs[k] + 32 ELSE cs[k]]

\* sub in cs
In(sub, cs) ==
    \E start \in 0..(Len(cs) - Len(sub)) :
        \A k \in 1..Len(sub) : cs[start + k] = sub[k]

\* the test of filter_by_attribute without the default of attributes.get: a
\* dict without the key never matches
Matches_need_key(attributes, field, value) ==
    IF attributes[field] = None THEN FALSE
    ELSE attributes[field][1].str /\ In(lower(value), lower(attributes[field][1].v))

\* attr_value = attributes.get(field, '');
\* isinstance(attr_value, str) and value.lower() in attr_value.lower()
Matches(attributes, field, value) ==
    LET attr_value == Get(attributes, field, Str(<< >>))
    IN  attr_value.str /\ In(lower(value), lower(attr_value.v))

(***************************************************************************)
(* BoundaryHandler objects: [polygons, polygon_attributes]                 *)
(***************************************************************************)
\* polygon_attributes or [{}] * len(polygons)
InitAttributes(polys, attrs) ==
    IF attrs = None THEN [k \in 1..Len(polys) |-> EmptyDict]
    ELSE IF Len(attrs[1]) = 0 THEN [k \in 1..Len(polys) |-> EmptyDict]
    ELSE attrs[1]

\* the indexes i (from 1) of the polygons with polygon.is_valid, in order
ValidIndexes(polys) ==
    SelectSeq([k \in 1..Len(polys) |-> k], LAMBDA k : is_valid(polys[k]))

\* valid_attributes filled by position in the list of survivors
valid_attributes_by_position(polys, attrs) ==
    [j \in 1..Len(ValidIndexes(polys)) |->
        IF j <= Len(attrs) THEN attrs[j] ELSE EmptyDict]

\* valid_attributes of _validate_polygons:
\* self.polygon_attributes[i] if i < len(self.polygon_attributes) else {}
valid_attributes(polys, attrs) ==
    [j \in 1..Len(ValidIndexes(polys)) |->
        IF ValidIndexes(polys)[j] <= Len(attrs)
        THEN attrs[ValidIndexes(polys)[j]] ELSE EmptyDict]

\* BoundaryHandler(polygons, polygon_attributes): the object __init__ leaves
BoundaryHandler(polys, attrs) ==
    [polygons |-> _validate_polygons(polys),
     polygon_attributes |-> valid_attributes(polys, InitAttributes(polys, attrs))]

\* the length of zip(self.polygons, self.polygon_attributes)
ZipLen(h) ==
    IF Len(h.polygons) <= Len(h.polygon_attributes)
    THEN Len(h.polygons) ELSE Len(h.polygon_attributes)

\* the indexes (from 1) of the pairs filter_by_attribute appends
FilteredIndexes(h, field, value) ==
    SelectSeq([k \in 1..ZipLen(h) |-> k],
              LAMBDA k : Matches(h.polygon_attributes[k], field, value))

\* BoundaryHandler(filtered_polygons, filtered_attributes)
FilteredHandler(h, field, value) ==
    LET ix == FilteredIndexes(h, field, value)
    IN  BoundaryHandler([j \in 1..Len(ix) |-> h.polygons[ix[j]]],
                        Some([j \in 1..Len(ix) |-> h.polygon_attributes[ix[j]]]))

\* a new object put over the last one
Allocate_overwrite(objects, h) == [objects EXCEPT ![Len(objects)] = h]

\* a constructor call makes a new object; the others stay as they are
Allocate(objects, h) == Append(objects, h)

(***************************************************************************)
(* numpy.random: the process-wide generator                                *)
(***************************************************************************)
\* np.random.seed(s) raises ValueError for a negative s (and for s above
\* 2**32 - 1, which no seed of this model reaches)
SeedAccepted(s) == s >= 0

\* the generator state np.random.seed(s) installs
SeedState(s) == s % RngMod

\* the state after one variate has been consumed
RngNext(r) == (5 * r + 3) % RngMod

\* np.random.uniform(low, high) in the state reached by RngNext
Uniform(r, low, high) == low + (r % (high - low + 1))

(***************************************************************************)
(* State                                                                   *)
(***************************************************************************)
VARIABLES
    polygons,       \* boundary_handler.polygons of the handler sampled
    n_points,       \* n_points_per_polygon of the call
    min_distance,   \* kwargs["min_distance"] of the call
    seed,           \* base seed of the call: None or Some(s)
    rng,            \* state of np.random
    pc,             \* position of the call
    i,              \* 0-based index of the polygon being sampled
    polygon_seed,   \* seed handed to the sampler for polygon i
    bounds,         \* single_generator.bounds
    points,         \* accepted list of the running sampler call
    attempts,       \* attempt counter of the running sampler call
    draws,          \* np.random.uniform calls made by the running sampler call
    cand,           \* candidate drawn by the last loop iteration
    all_points,     \* all_points of generate_points_per_polygon
    owner,          \* owner[k]: index of the polygon all_points[k] was sampled for
    failed,         \* indexes of the polygons whose sampling raised (logged)
    run,            \* 1 in the first call on the handler, 2 in the second
    first,          \* None, or Some(what the first call returned)
    threads,        \* the sampler calls of a call that runs them concurrently
    handlers,       \* the BoundaryHandler objects made so far; handlers[1] is the one sampled
    ret,            \* the last BoundaryHandler call: what was called, on what, and what it returned
    cli             \* cli.main from its call of generate_sampling_points on

vars == <<polygons, n_points, min_distance, seed, rng, pc, i, polygon_seed,
          bounds, points, attempts, draws, cand, all_points, owner, failed,
          run, first, threads, handlers, ret, cli>>

args == <<polygons, n_points, min_distance, seed>>
locals == <<bounds, points, attempts, draws, cand>>
heap == <<handlers, ret>>
call == <<args, run, first, threads, heap, cli>>

\* polygon lists handed to BoundaryHandler(...)
Inputs == { << >>,
            << Square >>,
            << Square, Bowtie, EmptyPolygon, Triangle >> }

Seeds == {None} \cup {Some(s) : s \in -1..MaxSeed}

Init ==
    /\ \E raw \in Inputs :
          /\ polygons = _validate_polygons(raw)
          /\ handlers = << BoundaryHandler(raw, None) >>
    /\ ret = [op |-> "none"]
    /\ cli = [pc |-> "generate", output |-> FALSE, summary |-> None,
              report |-> FALSE, code |-> None]
    /\ n_points \in -1..MaxN
    /\ min_distance \in 0..MaxMinDistance
    /\ seed \in Seeds
    /\ rng \in 0..MaxEntropy
    /\ pc = "start"
    /\ i = 0
    /\ polygon_seed = None
    /\ bounds = None
    /\ points = << >>
    /\ attempts = 0
    /\ draws = 0
    /\ cand = None
    /\ all_points = << >>
    /\ owner = << >>
    /\ failed = {}
    /\ run = 1
    /\ first = None
    /\ threads = << >>

(***************************************************************************)
(* RandomPointGenerator: the pieces of the two methods                     *)
(***************************************************************************)
\* the whole handler in place of the single-polygon handler
SinglePolygonHandler_whole(polys, idx) == polys

\* BoundaryHandler([polygon]) for the polygon at 0-based index idx
SinglePolygonHandler(polys, idx) == _validate_polygons(<< polys[idx + 1] >>)

\* the base seed handed on unchanged
PolygonSeed_base(base, idx) == base

\* polygon_seed = seed + i if seed is not None else None
PolygonSeed(base, idx) == IF base # None THEN Some(base[1] + idx) ELSE None

\* the seed is never installed
SeededRng_unseeded(r, s) == r

\* if seed is not None: np.random.seed(seed)
SeededRng(r, s) == IF s # None THEN SeedState(s[1]) ELSE r

\* max_attempts = n_points * 1000
max_attempts(n) == n * AttemptsPerPoint

\* attempts <= max_attempts in place of attempts < max_attempts
LoopGuard_le(pts, att, n) == Len(pts) < n /\ att <= max_attempts(n)

\* len(points) <= n_points in place of len(points) < n_points
LoopGuard_len_le(pts, att, n) == Len(pts) <= n /\ att < max_attempts(n)

\* while len(points) < n_points and attempts < max_attempts
LoopGuard(pts, att, n) == Len(pts) < n /\ att < max_attempts(n)

\* the scan leaves out the point accepted last
too_close_skip_last(p, pts, d) == \E k \in 1..(Len(pts) - 1) : DistanceLess(p, pts[k], d)

\* the scan of the accepted points that sets too_close
too_close(p, pts, d) == \E k \in 1..Len(pts) : DistanceLess(p, pts[k], d)

\* the new points put in front of all_points
Extend_front(all, pts) == pts \o all

\* all_points.extend(polygon_points)
Extend(all, pts) == all \o pts

\* the point and the generator state one loop iteration draws: x, then y
Candidate(r, b) ==
    LET r1 == RngNext(r)
        r2 == RngNext(r1)
    IN  [point |-> << Uniform(r1, b[1], b[3]), Uniform(r2, b[2], b[4]) >>,
         rng |-> r2]

\* except Exception: log the error and go on with the next polygon
ErrorIndex(idx) == idx + 1
ErrorPc == "poly"
\* the except clause starts all_points over
ErrorPoints_reset(all) == << >>
ErrorPoints(all) == all

\* the n_points <= 0 branch returns a point nobody drew
EmptyResult_origin == << <<0, 0>> >>
\* if n_points <= 0: return []
EmptyResult == << >>

(***************************************************************************)
(* generate_sampling_points / RandomPointGenerator.__init__ and the head   *)
(* of generate_points_per_polygon                                          *)
(***************************************************************************)
Start ==
    /\ pc = "start"
    /\ IF get_bounds(polygons) = None
       THEN pc' = "raised"
       ELSE IF Len(polygons) = 0 THEN pc' = "done" ELSE pc' = "poly"
    /\ UNCHANGED <<call, rng, i, polygon_seed, locals, all_points, owner, failed>>

\* an exception of iteration i reaches the except clause
Caught ==
    /\ pc' = ErrorPc
    /\ i' = ErrorIndex(i)
    /\ all_points' = ErrorPoints(all_points)
    /\ failed' = failed \cup {i}
    /\ UNCHANGED <<call, owner>>

\* RandomPointGenerator(single_polygon_handler) raises ValueError
PolygonNoBounds ==
    /\ pc = "poly" /\ i < Len(polygons)
    /\ get_bounds(SinglePolygonHandler(polygons, i)) = None
    /\ Caught
    /\ UNCHANGED <<rng, polygon_seed, locals>>

\* np.random.seed(polygon_seed) raises ValueError
PolygonBadSeed ==
    /\ pc = "poly" /\ i < Len(polygons)
    /\ get_bounds(SinglePolygonHandler(polygons, i)) # None
    /\ PolygonSeed(seed, i) # None /\ ~SeedAccepted(PolygonSeed(seed, i)[1])
    /\ polygon_seed' = PolygonSeed(seed, i)
    /\ bounds' = get_bounds(SinglePolygonHandler(polygons, i))
    /\ Caught
    /\ UNCHANGED <<rng, points, attempts, draws, cand>>

SeedOk(s) == IF s = None THEN TRUE ELSE SeedAccepted(s[1])

\* n_points <= 0: the sampler returns [] after seeding
PolygonNonPositive ==
    /\ pc = "poly" /\ i < Len(polygons)
    /\ get_bounds(SinglePolygonHandler(polygons, i)) # None
    /\ SeedOk(PolygonSeed(seed, i))
    /\ n_points <= 0
    /\ polygon_seed' = PolygonSeed(seed, i)
    /\ bounds' = get_bounds(SinglePolygonHandler(polygons, i))
    /\ rng' = SeededRng(rng, PolygonSeed(seed, i))
    /\ all_points' = Extend(all_points, EmptyResult)
    /\ i' = i + 1
    /\ UNCHANGED <<call, pc, points, attempts, draws, cand, owner, failed>>

\* min_distance <= 0: the sampler calls self.generate_points, which the
\* class does not define: AttributeError
PolygonNoGeneratePoints ==
    /\ pc = "poly" /\ i < Len(polygons)
    /\ get_bounds(SinglePolygonHandler(polygons, i)) # None
    /\ SeedOk(PolygonSeed(seed, i))
    /\ n_points > 0 /\ min_distance <= 0
    /\ polygon_seed' = PolygonSeed(seed, i)
    /\ bounds' = get_bounds(SinglePolygonHandler(polygons, i))
    /\ rng' = SeededRng(rng, PolygonSeed(seed, i))
    /\ Caught
    /\ UNCHANGED <<points, attempts, draws, cand>>

\* the sampler reaches its loop: points = [], attempts = 0
PolygonEnterLoop ==
    /\ pc = "poly" /\ i < Len(polygons)
    /\ get_bounds(SinglePolygonHandler(polygons, i)) # None
    /\ SeedOk(PolygonSeed(seed, i))
    /\ n_points > 0 /\ min_distance > 0
    /\ polygon_seed' = PolygonSeed(seed, i)
    /\ bounds' = get_bounds(SinglePolygonHandler(polygons, i))
    /\ rng' = SeededRng(rng, PolygonSeed(seed, i))
    /\ points' = << >>
    /\ attempts' = 0
    /\ draws' = 0
    /\ cand' = None
    /\ pc' = "loop"
    /\ UNCHANGED <<call, i, all_points, owner, failed>>

(***************************************************************************)
(* generate_points_with_minimum_distance: one iteration of the loop        *)
(***************************************************************************)
\* an iteration that leaves the attempt counter as it is
Iterate_uncounted ==
    /\ pc = "loop"
    /\ LoopGuard(points, attempts, n_points)
    /\ rng' = Candidate(rng, bounds).rng
    /\ cand' = Some(Candidate(rng, bounds).point)
    /\ draws' = draws + 2
    /\ attempts' = attempts
    /\ UNCHANGED <<call, pc, i, polygon_seed, bounds, all_points, owner, failed>>

\* what every iteration does: draw x and y, count the attempt
Iterate ==
    /\ pc = "loop"
    /\ LoopGuard(points, attempts, n_points)
    /\ rng' = Candidate(rng, bounds).rng
    /\ cand' = Some(Candidate(rng, bounds).point)
    /\ draws' = draws + 2
    /\ attempts' = attempts + 1
    /\ UNCHANGED <<call, pc, i, polygon_seed, bounds, all_points, owner, failed>>

\* the candidate is not inside the boundary
IterRejectOutside ==
    /\ Iterate
    /\ ~contains_point(SinglePolygonHandler(polygons, i), Candidate(rng, bounds).point)
    /\ points' = points

\* the candidate is closer than min_distance to an accepted point
IterRejectTooClose ==
    /\ Iterate
    /\ contains_point(SinglePolygonHandler(polygons, i), Candidate(rng, bounds).point)
    /\ too_close(Candidate(rng, bounds).point, points, min_distance)
    /\ points' = points

\* the candidate is accepted
IterAccept ==
    /\ Iterate
    /\ contains_point(SinglePolygonHandler(polygons, i), Candidate(rng, bounds).point)
    /\ ~too_close(Candidate(rng, bounds).point, points, min_distance)
    /\ points' = Append(points, Candidate(rng, bounds).point)

\* the loop ends: the sampler returns points, the caller extends all_points
SamplerReturn ==
    /\ pc = "loop"
    /\ ~LoopGuard(points, attempts, n_points)
    /\ all_points' = Extend(all_points, points)
    /\ owner' = Extend(owner, [k \in 1..Len(points) |-> i])
    /\ i' = i + 1
    /\ pc' = "poly"
    /\ UNCHANGED <<call, rng, polygon_seed, locals, failed>>

\* the for loop is over: return all_points
Finish ==
    /\ pc = "poly" /\ i >= Len(polygons)
    /\ pc' = "done"
    /\ UNCHANGED <<call, rng, i, polygon_seed, locals, all_points, owner, failed>>

Next ==
    \/ Start
    \/ PolygonNoBounds
    \/ PolygonBadSeed
    \/ PolygonNonPositive
    \/ PolygonNoGeneratePoints
    \/ PolygonEnterLoop
    \/ IterRejectOutside
    \/ IterRejectTooClose
    \/ IterAccept
    \/ SamplerReturn
    \/ Finish

Spec == Init /\ [][Next]_vars

\* the call is synchronous: it always takes its next step.  The runs looked
\* at: np.random starts in one state, there is no base seed or one that
\* np.random.seed refuses for the first polygon, and min_distance is the
\* least or the largest of its range (the largest leaves no room for a second
\* point, so the attempt budget is what ends the loop).
InitLive ==
    /\ Init
    /\ rng = 0
    /\ seed \in {None, Some(-1)}
    /\ min_distance \in {0, MaxMinDistance}

SpecLive == InitLive /\ [][Next]_vars /\ WF_vars(Next)

(***************************************************************************)
(* A second call of generate_sampling_points with the same arguments,      *)
(* after the process has drawn from np.random in between                   *)
(***************************************************************************)
Outcome == [pc |-> pc, points |-> all_points]

\* return points (generator.py:87): what the sampler hands to its caller is
\* the accepted list and nothing else
ReturnValue(pts) == [points |-> pts]

Again ==
    /\ pc \in {"done", "raised"} /\ run = 1
    /\ run' = 2
    /\ first' = Some(Outcome)
    /\ rng' \in 0..MaxEntropy
    /\ pc' = "start"
    /\ i' = 0
    /\ polygon_seed' = None
    /\ bounds' = None
    /\ points' = << >>
    /\ attempts' = 0
    /\ draws' = 0
    /\ cand' = None
    /\ all_points' = << >>
    /\ owner' = << >>
    /\ failed' = {}
    /\ UNCHANGED <<args, threads, heap, cli>>

NextTwice == Next \/ Again

\* both calls are given a base seed
InitTwice == Init /\ seed # None

SpecTwice == InitTwice /\ [][NextTwice]_vars

(***************************************************************************)
(* The per-polygon sampler calls of one generate_points_per_polygon call   *)
(* run as concurrent threads (spec section 5): each thread runs the body   *)
(* of the try block for its polygon; np.random is the one generator of the *)
(* process; the results are put together in polygon order.  The call is    *)
(* made after a sequential call with the same arguments has returned.      *)
(***************************************************************************)
\* a thread before its first step
ThreadBegin == [pc |-> "begin", bounds |-> None, points |-> << >>, attempts |-> 0]

Fork ==
    /\ pc = "done" /\ run = 1
    /\ n_points <= MaxConcurrentN
    /\ run' = 2
    /\ first' = Some(Outcome)
    /\ threads' = [k \in 1..Len(polygons) |-> ThreadBegin]
    /\ pc' = "forked"
    /\ i' = 0
    /\ all_points' = << >>
    /\ owner' = << >>
    /\ failed' = {}
    /\ UNCHANGED <<args, rng, polygon_seed, locals, heap, cli>>

ThreadFrame == <<args, run, first, pc, i, polygon_seed, locals, all_points, owner, failed, heap, cli>>

\* thread k builds its handler and generator and enters the sampler up to
\* the loop
ThreadEnterAt(k) ==
    /\ pc = "forked" /\ threads[k + 1].pc = "begin"
    /\ LET b == get_bounds(SinglePolygonHandler(polygons, k))
           s == PolygonSeed(seed, k)
       IN  IF b = None \/ ~SeedOk(s)
           THEN /\ threads' = [threads EXCEPT ![k + 1].pc = "raised"]
                /\ rng' = rng
           ELSE /\ rng' = SeededRng(rng, s)
                /\ threads' = [threads EXCEPT
                      ![k + 1].bounds = b,
                      ![k + 1].pc = IF n_points <= 0 THEN "returned"
                                    ELSE IF min_distance <= 0 THEN "raised"
                                    ELSE "loop"]
    /\ UNCHANGED ThreadFrame

\* one iteration of the loop of thread k; threads are switched between
\* iterations
ThreadIterateAt(k) ==
    /\ pc = "forked" /\ threads[k + 1].pc = "loop"
    /\ LoopGuard(threads[k + 1].points, threads[k + 1].attempts, n_points)
    /\ LET t == threads[k + 1]
           c == Candidate(rng, t.bounds)
           ok == /\ contains_point(SinglePolygonHandler(polygons, k), c.point)
                 /\ ~too_close(c.point, t.points, min_distance)
       IN  /\ rng' = c.rng
           /\ threads' = [threads EXCEPT
                 ![k + 1].points = IF ok THEN Append(t.points, c.point) ELSE t.points,
                 ![k + 1].attempts = t.attempts + 1]
    /\ UNCHANGED ThreadFrame

\* the loop of thread k ends
ThreadReturnAt(k) ==
    /\ pc = "forked" /\ threads[k + 1].pc = "loop"
    /\ ~LoopGuard(threads[k + 1].points, threads[k + 1].attempts, n_points)
    /\ threads' = [threads EXCEPT ![k + 1].pc = "returned"]
    /\ UNCHANGED <<ThreadFrame, rng>>

RECURSIVE Gather(_, _)
\* the results of threads k.. in polygon order; a thread that raised gives none
Gather(ts, k) ==
    IF k > Len(ts) THEN << >>
    ELSE Extend(IF ts[k].pc = "returned" THEN ts[k].points ELSE << >>, Gather(ts, k + 1))

\* every thread has ended: the call returns the results in polygon order
Join ==
    /\ pc = "forked"
    /\ \A k \in 1..Len(threads) : threads[k].pc \in {"returned", "raised"}
    /\ all_points' = Gather(threads, 1)
    /\ failed' = {k \in 0..(Len(threads) - 1) : threads[k + 1].pc = "raised"}
    /\ i' = Len(polygons)
    /\ pc' = "done"
    /\ UNCHANGED <<call, rng, polygon_seed, locals, owner>>

ThreadEnter == \E k \in 0..(Len(polygons) - 1) : ThreadEnterAt(k)
ThreadIterate == \E k \in 0..(Len(polygons) - 1) : ThreadIterateAt(k)
ThreadReturn == \E k \in 0..(Len(polygons) - 1) : ThreadReturnAt(k)

NextConcurrent ==
    \/ Next
    \/ Fork
    \/ ThreadEnter
    \/ ThreadIterate
    \/ ThreadReturn
    \/ Join

SpecConcurrent == Init /\ [][NextConcurrent]_vars

(***************************************************************************)
(* Calls on BoundaryHandler objects.  Calls are synchronous: the ones here *)
(* are made after the generator call on handlers[1] has ended.             *)
(***************************************************************************)
\* polygon lists and attribute lists handed to BoundaryHandler(...)
RawInputs == Inputs \cup { << EmptyPolygon >>, << Bowtie >> }
AttributeInputs ==
    { None,
      Some(<< >>),
      Some(<< NameAb, NameXbIdB >>),
      Some(<< NameAb, NameXbIdB, NameSeven, NameaBIdb >>) }

\* arguments of filter_by_attribute: "", "aB", "B"
Fields == {"name", "id"}
Values == { << >>, <<97, 66>>, <<66>> }

\* points asked of contains_point
TestPoints == { <<1, 1>>, <<3, 3>>, <<3, 4>>, <<5, 5>>, <<4, 2>> }

Idle == pc \in {"done", "raised"} /\ run = 1

Frame == <<args, rng, pc, i, polygon_seed, locals, all_points, owner, failed,
           run, first, threads, cli>>

\* BoundaryHandler(raw, attrs)
Construct ==
    /\ Idle /\ Len(handlers) < MaxHandlers
    /\ \E raw \in RawInputs, attrs \in AttributeInputs :
          /\ handlers' = Allocate(handlers, BoundaryHandler(raw, attrs))
          /\ ret' = [op |-> "init", raw |-> raw, attrs |-> attrs,
                     value |-> Len(handlers')]
    /\ UNCHANGED Frame

\* handlers[h].filter_by_attribute(field, value): the receiver itself when
\* it has no attributes, else a new handler
FilterByAttribute ==
    /\ Idle
    /\ \E h \in 1..Len(handlers), field \in Fields, value \in Values :
          IF Len(handlers[h].polygon_attributes) = 0
          THEN /\ handlers' = handlers
               /\ ret' = [op |-> "filter_by_attribute", h |-> h, field |-> field,
                          arg |-> value, value |-> h]
          ELSE /\ Len(handlers) < MaxHandlers
               /\ handlers' = Allocate(handlers, FilteredHandler(handlers[h], field, value))
               /\ ret' = [op |-> "filter_by_attribute", h |-> h, field |-> field,
                          arg |-> value, value |-> Len(handlers')]
    /\ UNCHANGED Frame

GetCombinedBoundary ==
    /\ Idle
    /\ \E h \in 1..Len(handlers) :
          ret' = [op |-> "get_combined_boundary", h |-> h,
                  value |-> get_combined_boundary(handlers[h].polygons)]
    /\ UNCHANGED <<Frame, handlers>>

GetBounds ==
    /\ Idle
    /\ \E h \in 1..Len(handlers) :
          ret' = [op |-> "get_bounds", h |-> h,
                  value |-> get_bounds(handlers[h].polygons)]
    /\ UNCHANGED <<Frame, handlers>>

GetArea ==
    /\ Idle
    /\ \E h \in 1..Len(handlers) :
          ret' = [op |-> "get_area", h |-> h,
                  value |-> get_area(handlers[h].polygons)]
    /\ UNCHANGED <<Frame, handlers>>

ContainsPoint ==
    /\ Idle
    /\ \E h \in 1..Len(handlers), p \in TestPoints :
          ret' = [op |-> "contains_point", h |-> h, arg |-> p,
                  value |-> contains_point(handlers[h].polygons, p)]
    /\ UNCHANGED <<Frame, handlers>>

NextBoundary ==
    \/ Next
    \/ Construct
    \/ FilterByAttribute
    \/ GetCombinedBoundary
    \/ GetBounds
    \/ GetArea
    \/ ContainsPoint

\* the generator calls looked at: the handler sampled has three polygons,
\* np.random starts in one state, the base seed is one np.random.seed refuses
\* for the first polygon
InitBoundary ==
    /\ Init
    /\ Len(polygons) = 3
    /\ rng = 0
    /\ seed = Some(-1)
    /\ n_points \in {0, MaxN}
    /\ min_distance \in {0, MaxMinDistance}

SpecBoundary == InitBoundary /\ [][NextBoundary]_vars

(***************************************************************************)
(* cli.main from step 3 on: the handler and the arguments are those of the *)
(* generate_sampling_points call; cli.output says whether the export file  *)
(* is written, cli.report whether the summary report is, cli.code is the   *)
(* exit status once the run has ended.                                     *)
(***************************************************************************)
\* the methods class SamplingPointExporter defines
ExporterMethods == {"__init__", "_generate_sample_prefix", "export_to_csv"}

\* args.summary: not given, or the path of the report
SummaryArgs == {None, Some("report")}

Program == <<args, rng, pc, i, polygon_seed, locals, all_points, owner, failed,
             run, first, threads, heap>>

\* sys.exit(1)
Exit(c) == [c EXCEPT !.pc = "exit", !.code = Some(1)]

\* generate_sampling_points raised (except Exception) or gave no points
CliNoPoints ==
    /\ cli.pc = "generate"
    /\ pc = "raised" \/ (pc = "done" /\ Len(all_points) = 0)
    /\ cli' = Exit(cli)
    /\ UNCHANGED Program

\* export_sampling_points: export_to_csv writes the file and returns True,
\* or returns False when writing raises
CliExport ==
    /\ cli.pc = "generate"
    /\ pc = "done" /\ Len(all_points) > 0
    /\ \E written \in BOOLEAN :
          cli' = IF written
                 THEN [cli EXCEPT !.pc = "summary", !.output = TRUE]
                 ELSE Exit(cli)
    /\ UNCHANGED Program

\* args.summary is given: exporter.export_summary_report is looked up, the
\* class has no such method, and the AttributeError ends in except Exception
CliSummary ==
    /\ cli.pc = "summary"
    /\ \E path \in SummaryArgs \ {None} :
          /\ "export_summary_report" \notin ExporterMethods
          /\ cli' = Exit([cli EXCEPT !.summary = path])
    /\ UNCHANGED Program

\* args.summary is not given: main logs its last line and returns
CliComplete ==
    /\ cli.pc = "summary"
    /\ cli' = [cli EXCEPT !.pc = "exit", !.code = Some(0)]
    /\ UNCHANGED Program

NextCli ==
    \/ Next
    \/ CliNoPoints
    \/ CliExport
    \/ CliSummary
    \/ CliComplete

\* the runs looked at: np.random starts in one state
InitCli == Init /\ rng = 0

SpecCli == InitCli /\ [][NextCli]_vars

(***************************************************************************)
(* Properties                                                              *)
(***************************************************************************)
Inside(p, idx) == PolygonContains(polygons[idx + 1], p)
Apart(p, q) == DistSq(p, q) >= min_distance * min_distance
Budget == n_points * 1000

\* C1: with min_distance > 0, any two accepted points of one polygon's run
\* (two entries of the accepted list, or two returned points of the same
\* polygon) are at distance >= min_distance.
C1_MinDistance ==
    min_distance > 0 =>
        /\ \A a, b \in 1..Len(points) : a # b => Apart(points[a], points[b])
        /\ \A a, b \in 1..Len(all_points) :
              (a # b /\ owner[a] = owner[b]) => Apart(all_points[a], all_points[b])

\* two accepted points at exactly min_distance
C1_Witness ==
    /\ pc = "done" /\ min_distance > 0
    /\ \E a, b \in 1..Len(all_points) :
          /\ a # b /\ owner[a] = owner[b]
          /\ DistSq(all_points[a], all_points[b]) = min_distance * min_distance

\* C2: every point of the accepted list and every returned point lies
\* inside the polygon it was sampled for.
C2_Containment ==
    /\ pc = "loop" => \A a \in 1..Len(points) : Inside(points[a], i)
    /\ \A a \in 1..Len(all_points) : Inside(all_points[a], owner[a])

\* points were returned after a candidate outside the polygon was rejected
C2_Witness ==
    /\ pc = "done" /\ Len(all_points) >= 2
    /\ cand # None /\ attempts > Len(points)

\* C3: in the sampler loop the attempt counter never exceeds n * 1000, and
\* a candidate is drawn only while it is below n * 1000.
C3_AttemptCeiling ==
    /\ [](pc = "loop" => (n_points > 0 /\ attempts <= Budget /\ draws = 2 * attempts))
    /\ [][(pc = "loop" /\ (draws' # draws \/ cand' # cand \/ attempts' # attempts))
            => attempts < Budget]_vars

\* a run that used up its budget
C3_Witness == pc = "loop" /\ attempts = Budget /\ Len(points) < n_points

\* C4: every sampler call ends, and so does the whole call; the loop goes on
\* exactly while fewer than n points are accepted and the counter is below
\* n * 1000; what it returns is the accepted list, of length <= n, and of
\* length < n only with the budget used up.
C4_Termination ==
    /\ <>(pc \in {"done", "raised"})
    /\ [][pc = "loop" =>
            IF Len(points) = n_points \/ attempts = Budget
            THEN /\ pc' = "poly"
                 /\ all_points' = all_points \o points
                 /\ Len(points) <= n_points
                 /\ (Len(points) < n_points => attempts = Budget)
            ELSE pc' = "loop" /\ attempts' = attempts + 1]_vars

\* a sampler call that returned fewer than n points
C4_Witness ==
    /\ pc = "done" /\ n_points > 0
    /\ Len(points) < n_points /\ attempts = Budget /\ Len(all_points) > 0

\* C7: the sampler for polygon i is called with seed baseSeed + i, and with
\* no seed when there is no base seed; a loop that starts seeded starts from
\* the generator state of baseSeed + i, and an unseeded call leaves the
\* generator in the state the process is in.
C7_PolygonSeed ==
    [][(pc = "poly" /\ i < Len(polygons) /\ Len(polygons[i + 1]) > 0) =>
          IF seed = None
          THEN polygon_seed' = None /\ rng' = rng
          ELSE /\ polygon_seed' = Some(seed[1] + i)
               /\ pc' = "loop" => rng' = (seed[1] + i) % RngMod]_vars

\* the third polygon sampled under a base seed
C7_Witness ==
    /\ pc = "loop" /\ i = 2 /\ seed # None
    /\ polygon_seed = Some(seed[1] + 2) /\ polygon_seed # seed

\* C8: the candidate for polygon i comes from polygon i's bounding box, and
\* it is accepted exactly when it is inside polygon i and at min_distance or
\* more from the points accepted for polygon i.
C8_Isolation ==
    /\ []((pc = "loop" /\ cand # None) =>
            LET b == GeomBounds(<< polygons[i + 1] >>)
            IN  /\ b[1] <= cand[1][1] /\ cand[1][1] <= b[3]
                /\ b[2] <= cand[1][2] /\ cand[1][2] <= b[4])
    /\ [][(pc = "loop" /\ pc' = "loop") =>
            IF /\ Inside(cand'[1], i)
               /\ \A a \in 1..Len(points) : Apart(cand'[1], points[a])
            THEN points' = Append(points, cand'[1])
            ELSE points' = points]_vars

\* two returned points of different polygons closer than min_distance
C8_Witness ==
    /\ pc = "done"
    /\ \E a, b \in 1..Len(all_points) :
          owner[a] # owner[b] /\ ~Apart(all_points[a], all_points[b])

Count(idx) == Cardinality({a \in 1..Len(owner) : owner[a] = idx})

\* C9: all_points is the per-polygon samples one after the other in polygon
\* order: a returning sampler's list is appended as it is, the polygon
\* indexes along all_points never decrease, and no polygon has more than n
\* points in it.
C9_Concatenation ==
    /\ [](/\ Len(owner) = Len(all_points)
          /\ \A a, b \in 1..Len(owner) : a < b => owner[a] <= owner[b]
          /\ \A a \in 1..Len(owner) : owner[a] < i /\ Count(owner[a]) <= n_points)
    /\ [][(pc = "loop" /\ pc' = "poly") =>
            /\ all_points' = all_points \o points
            /\ owner' = owner \o [k \in 1..Len(points) |-> i]]_vars

\* two polygons contributed n points each
C9_Witness ==
    /\ pc = "done" /\ n_points = 2
    /\ Count(0) = 2 /\ Count(2) = 2

\* C10: an exception while polygon i is sampled is caught: the call goes on
\* with polygon i + 1, all_points is as before, the failed polygon has no
\* point in all_points, and the call ends having gone through every polygon.
C10_ErrorIsolation ==
    /\ []((failed # {} => pc # "raised")
          /\ (pc = "done" => i = Len(polygons))
          /\ \A a \in 1..Len(owner) : owner[a] \notin failed)
    /\ [][(failed' # failed) =>
            /\ failed' = failed \cup {i}
            /\ pc' = "poly" /\ i' = i + 1
            /\ all_points' = all_points]_vars

\* a polygon failed after an earlier one gave points and before a later one did
C10_Witness ==
    /\ pc = "done" /\ 1 \in failed
    /\ Count(0) > 0 /\ Count(2) > 0

\* C5: a second call with the same handler, count, min_distance and base
\* seed (not None) ends as the first did, with the same points in the same
\* order, whatever state np.random was in before either call.
C5_Determinism ==
    (run = 2 /\ pc \in {"done", "raised"} /\ seed # None) => first = Some(Outcome)

\* a seeded second call that returned points
C5_Witness ==
    /\ run = 2 /\ pc = "done" /\ seed # None
    /\ Len(all_points) >= 2 /\ first = Some(Outcome)

\* C6: with a base seed, the call that runs its per-polygon sampler calls
\* concurrently returns what the sequential call returned.
C6_ConcurrentSameResult ==
    (run = 2 /\ pc = "done" /\ seed # None /\ threads # << >>)
        => all_points = first[1].points

\* C11: on a handler with no polygons the call does not raise, and it
\* returns an empty list.
C11_EmptySetEmptyResult ==
    Len(polygons) = 0 =>
        /\ pc # "raised"
        /\ pc = "done" => all_points = << >>

\* C12: with n > 0 and min_distance <= 0 the call returns n points for
\* every polygon its sampler is run on (a polygon with a boundary, a seed
\* np.random.seed takes), each inside its polygon; no sampler call fails.
C12_Unconstrained ==
    (pc = "done" /\ n_points > 0 /\ min_distance <= 0) =>
        /\ \A k \in 0..(Len(polygons) - 1) :
              (Len(polygons[k + 1]) > 0 /\ SeedOk(PolygonSeed(seed, k))) =>
                  (k \notin failed /\ Count(k) = n_points)
        /\ \A a \in 1..Len(all_points) : Inside(all_points[a], owner[a])

Shortfall ==
    /\ pc = "loop" /\ ~LoopGuard(points, attempts, n_points)
    /\ Len(points) < n_points

\* C14: a sampler that returns with the budget used up and fewer than n
\* points hands its caller the accepted points, each inside the polygon and
\* at min_distance or more from the others, together with the deficit
\* n - len(points).
C14_PartialWithDeficit ==
    Shortfall =>
        /\ \A a \in 1..Len(points) : Inside(points[a], i)
        /\ \A a, b \in 1..Len(points) : a # b => Apart(points[a], points[b])
        /\ ReturnValue(points).points = points
        /\ "deficit" \in DOMAIN ReturnValue(points)
        /\ ReturnValue(points).deficit = n_points - Len(points)

\* C20: an iteration of the loop draws one candidate (x, then y) and adds
\* one to the attempt counter whatever becomes of the candidate; a candidate
\* outside the polygon or closer than min_distance to an accepted point
\* leaves the accepted list as it is, any other is appended at its end;
\* during a sampler call the accepted points stay where they are; the list
\* is never longer than the attempt counter.
C20_IterationFrame ==
    /\ [](Len(points) <= attempts)
    /\ [][(pc = "loop" /\ pc' = "loop") =>
            /\ attempts' = attempts + 1
            /\ draws' = draws + 2
            /\ cand' = Some(Candidate(rng, bounds).point)
            /\ IF ~Inside(cand'[1], i)
               THEN points' = points
               ELSE IF \E a \in 1..Len(points) : ~Apart(cand'[1], points[a])
                    THEN points' = points
                    ELSE points' = Append(points, cand'[1])]_vars
    /\ [][pc = "loop" =>
            /\ Len(points') >= Len(points)
            /\ \A a \in 1..Len(points) : points'[a] = points[a]]_vars

\* the last candidate was inside the polygon and rejected for distance,
\* after one acceptance and at least one other rejection
C20_Witness ==
    /\ pc = "loop" /\ Len(points) = 1 /\ attempts >= 3
    /\ cand # None /\ Inside(cand[1], i)
    /\ cand[1] # points[1] /\ ~Apart(cand[1], points[1])

\* the attributes handed to the constructor for the polygon at index k
\* (from 1) of its input; the empty dict when there are none
Supplied(attrs, k) ==
    IF attrs = None THEN EmptyDict
    ELSE IF k <= Len(attrs[1]) THEN attrs[1][k] ELSE EmptyDict

\* ix maps the positions 1..n to members of a set of indexes, in rising
\* order and onto the set
Survivors(ix, n, S) ==
    /\ \A a, b \in 1..n : a < b => ix[a] < ix[b]
    /\ \A k \in S : \E j \in 1..n : ix[j] = k

\* C15: every handler has valid polygons only and as many attribute dicts
\* as polygons; the handler a constructor call leaves holds the valid
\* polygons of its input in input order, each with the attributes handed in
\* at that polygon's input index (the empty dict when there are none), and
\* no polygon when the input has no valid one.
C15_Construction ==
    /\ \A h \in 1..Len(handlers) :
          /\ \A k \in 1..Len(handlers[h].polygons) : is_valid(handlers[h].polygons[k])
          /\ Len(handlers[h].polygon_attributes) = Len(handlers[h].polygons)
    /\ ret.op = "init" =>
          LET made == handlers[ret.value]
              n == Len(made.polygons)
              valid == {k \in 1..Len(ret.raw) : is_valid(ret.raw[k])}
          IN  /\ n = Cardinality(valid)
              /\ \E ix \in [1..n -> valid] :
                    /\ Survivors(ix, n, valid)
                    /\ \A j \in 1..n :
                          /\ made.polygons[j] = ret.raw[ix[j]]
                          /\ made.polygon_attributes[j] = Supplied(ret.attrs, ix[j])

\* four polygons with attributes for the first two: the invalid second
\* polygon is dropped with its attributes, the two after it get empty dicts
C15_Witness ==
    /\ ret.op = "init"
    /\ ret.raw = << Square, Bowtie, EmptyPolygon, Triangle >>
    /\ ret.attrs = Some(<< NameAb, NameXbIdB >>)
    /\ handlers[ret.value].polygons = << Square, EmptyPolygon, Triangle >>
    /\ handlers[ret.value].polygon_attributes = << NameAb, EmptyDict, EmptyDict >>

\* two characters that are the same letter
SameLetter(c, d) ==
    \/ c = d
    \/ c \in 65..90 /\ d = c + 32
    \/ d \in 65..90 /\ c = d + 32

\* the attribute key is a string that has value in it, letter case aside (a
\* dict without the key counts as having the empty string)
HasValue(attributes, key, value) ==
    LET a == IF attributes[key] = None THEN Str(<< >>) ELSE attributes[key][1]
    IN  /\ a.str
        /\ \E start \in 0..(Len(a.v) - Len(value)) :
              \A k \in 1..Len(value) : SameLetter(a.v[start + k], value[k])

\* the handler a filter_by_attribute call returned holds exactly the pairs
\* of the receiver whose attribute has the value, in the receiver's order
FilteredExactly ==
    LET recv == handlers[ret.h]
        out == handlers[ret.value]
        keep == {k \in 1..Len(recv.polygons) :
                    HasValue(recv.polygon_attributes[k], ret.field, ret.arg)}
        n == Cardinality(keep)
    IN  /\ Len(out.polygons) = n /\ Len(out.polygon_attributes) = n
        /\ \E ix \in [1..n -> keep] :
              /\ Survivors(ix, n, keep)
              /\ \A j \in 1..n :
                    /\ out.polygons[j] = recv.polygons[ix[j]]
                    /\ out.polygon_attributes[j] = recv.polygon_attributes[ix[j]]

\* C16: filter_by_attribute returns a handler that is not the receiver,
\* whatever the receiver, and that holds exactly the matching pairs in their
\* order (none when nothing matches).
C16_FilterNewSet ==
    ret.op = "filter_by_attribute" => (ret.value # ret.h /\ FilteredExactly)

\* C17: no step changes the polygons or the attributes of a handler that
\* exists, be it a constructor call, a filter, a query or a step of the
\* generator and its samplers; the handler sampled stays handlers[1].
C17_Immutable ==
    /\ [](handlers[1].polygons = polygons)
    /\ [][/\ polygons' = polygons
          /\ Len(handlers') >= Len(handlers)
          /\ \A h \in 1..Len(handlers) : handlers'[h] = handlers[h]]_vars

\* after a generator call that returned points, a filter of the handler
\* sampled gave a new handler with fewer polygons
C17_Witness ==
    /\ pc = "done" /\ Len(all_points) > 0
    /\ ret.op = "filter_by_attribute" /\ ret.h = 1 /\ ret.value = 3
    /\ Len(handlers[3].polygons) < Len(handlers[1].polygons)
    /\ Len(handlers[2].polygons) > 0

\* C18: contains_point(p) is true exactly when a polygon of the handler
\* contains p; without polygons it is false.
C18_ContainsAny ==
    ret.op = "contains_point" =>
        /\ ret.value = (\E k \in 1..Len(handlers[ret.h].polygons) :
                          PolygonContains(handlers[ret.h].polygons[k], ret.arg))
        /\ Len(handlers[ret.h].polygons) = 0 => ret.value = FALSE

\* a point inside the bounds of a handler with two polygons and in neither
C18_Witness ==
    /\ ret.op = "contains_point" /\ ret.value = FALSE
    /\ Len(handlers[ret.h].polygons) >= 2
    /\ contains_point_bounds(handlers[ret.h].polygons, ret.arg)

\* C19: on a handler without polygons get_combined_boundary and get_bounds
\* return None, get_area 0 and contains_point false; and only on a handler
\* without polygons do get_combined_boundary and get_bounds return None.
C19_NoData ==
    LET empty == Len(handlers[ret.h].polygons) = 0
    IN  /\ ret.op = "get_combined_boundary" => (empty <=> ret.value = None)
        /\ ret.op = "get_bounds" => (empty <=> ret.value = None)
        /\ ret.op = "get_area" => (empty => ret.value = 0)
        /\ ret.op = "contains_point" => (empty => ret.value = FALSE)

\* C21: a run of the CLI that was given --summary and has written its
\* export file ends with the summary report written and exit status 0.
C21_SummaryCompletes ==
    (cli.pc = "exit" /\ cli.summary # None /\ cli.output) =>
        (cli.report /\ cli.code = Some(0))

\* the dict has a str for the key
HasStr(attributes, key) ==
    IF attributes[key] = None THEN FALSE ELSE attributes[key][1].str

\* the dict has the key with a value that is not a str
HasNonStr(attributes, key) ==
    IF attributes[key] = None THEN FALSE ELSE ~attributes[key][1].str

\* C22 as stated: on a handler with polygons, filter_by_attribute with the
\* empty value returns the receiver's polygons and attributes as they are;
\* with a non-empty value every pair returned has a str for the key.
C22_EmptyValueAll ==
    (ret.op = "filter_by_attribute" /\ Len(handlers[ret.h].polygons) > 0) =>
        LET recv == handlers[ret.h]
            out == handlers[ret.value]
        IN  IF ret.arg = << >>
            THEN /\ out.polygons = recv.polygons
                 /\ out.polygon_attributes = recv.polygon_attributes
            ELSE \A j \in 1..Len(out.polygons) :
                    HasStr(out.polygon_attributes[j], ret.field)

\* C22, amended: on a handler with polygons, filter_by_attribute with the
\* empty value returns, in the receiver's order, exactly the pairs whose
\* dict has no value for the key or a str (all of them when no dict has a
\* value that is not a str); with a non-empty value every pair returned has
\* a str for the key; no value matches a pair whose value is not a str.
C22_EmptyValueStrings ==
    (ret.op = "filter_by_attribute" /\ Len(handlers[ret.h].polygons) > 0) =>
        LET recv == handlers[ret.h]
            out == handlers[ret.value]
            n == Len(out.polygons)
            keep == {k \in 1..Len(recv.polygons) :
                        ~HasNonStr(recv.polygon_attributes[k], ret.field)}
        IN  /\ ret.value # ret.h
            /\ Len(out.polygon_attributes) = n
            /\ \A j \in 1..n : ~HasNonStr(out.polygon_attributes[j], ret.field)
            /\ IF ret.arg = << >>
               THEN /\ n = Cardinality(keep)
                    /\ \E ix \in [1..n -> keep] :
                          /\ Survivors(ix, n, keep)
                          /\ \A j \in 1..n :
                                /\ out.polygons[j] = recv.polygons[ix[j]]
                                /\ out.polygon_attributes[j] = recv.polygon_attributes[ix[j]]
                    /\ (keep = 1..Len(recv.polygons)) =>
                          /\ out.polygons = recv.polygons
                          /\ out.polygon_attributes = recv.polygon_attributes
               ELSE \A j \in 1..n : HasStr(out.polygon_attributes[j], ret.field)

\* the empty value on a handler of three polygons: the two with a str for
\* the key are returned, the one whose value for the key is not a str is not
C22_Witness ==
    /\ ret.op = "filter_by_attribute" /\ ret.arg = << >> /\ ret.field = "name"
    /\ handlers[ret.h].polygon_attributes = << NameAb, NameSeven, NameaBIdb >>
    /\ handlers[ret.value].polygon_attributes = << NameAb, NameaBIdb >>
    /\ handlers[ret.value].polygons = << Square, Triangle >>

====
